---- MODULE Spec2Model ----
(***************************************************************************)
(* Route monitoring scheduler and travel-time aggregation / notification   *)
(* engine of GMaps-Monitor (server/routes.ts, server/storage.ts,           *)
(* server/google-api.ts).                                                  *)
(*                                                                         *)
(* Execution model: Node.js event loop.  A request handler, a timer        *)
(* callback or the arrival of a provider response is one macrotask.  With  *)
(* MemStorage every store call returns an already resolved promise, so the *)
(* continuations after `await storage.x()` and the `.then` callbacks of    *)
(* scheduleRouteMonitoring are microtasks: they all run before the next    *)
(* macrotask starts.  The only real I/O inside checkRouteTime is the       *)
(* provider call (axios), which splits a check in two macrotasks.          *)
(***************************************************************************)
EXTENDS Integers, Sequences, FiniteSets, TLC

\* ------------------------------------------------------------------ bounds
MaxRoutes == 2        \* route ids ever allocated
MaxJobs == 3          \* timer handles tracked at one time
MaxHistories == 3     \* history entries ever written
MaxInFlight == 2      \* checks waiting for the provider at one time
MaxMinute == 2        \* minutes the clock advances
MaxCronMinute == 62   \* minutes the clock advances past an hour boundary

MinutesPerHour == 60  \* cron minute field: 0..59

\* ------------------------------------------------------- JavaScript values
\* A nullable number field is a number, null, undefined (key absent) or NaN.
Num(v) == [tag |-> "number", val |-> v]
NULL == [tag |-> "null", val |-> 0]
UNDEFINED == [tag |-> "undefined", val |-> 0]
NaN == [tag |-> "NaN", val |-> 0]

IsNum(x) == x.tag = "number"

\* JS truthiness of a nullable number: null, undefined, NaN and 0 are falsy.
Truthy(x) == IsNum(x) /\ x.val # 0

\* d - x for a number d: undefined and NaN give NaN, null coerces to 0.
Minus(d, x) ==
  CASE x.tag = "number" -> Num(d - x.val)
    [] x.tag = "null" -> Num(d)
    [] OTHER -> NaN

\* x > 0, x < 0, Math.abs(x) >= n: every comparison with NaN is false.
GtZero(x) == IsNum(x) /\ x.val > 0
LtZero(x) == IsNum(x) /\ x.val < 0
Abs(n) == IF n < 0 THEN -n ELSE n
AbsGe(x, n) == IsNum(x) /\ Abs(x.val) >= n

Min2(a, b) == IF a <= b THEN a ELSE b
Max2(a, b) == IF a >= b THEN a ELSE b

\* Math.round(num / den) for den > 0: nearest integer, ties towards +infinity.
MathRound(num, den) == (2 * num + den) \div (2 * den)

RECURSIVE SumTravelTime(_)
SumTravelTime(hs) ==
  IF hs = <<>> THEN 0 ELSE Head(hs).travelTime + SumTravelTime(Tail(hs))

\* ------------------------------------------------------------------- state
VARIABLES
  envKey,           \* process.env.GOOGLE_MAPS_API_KEY ("" when not set)
  settings,         \* MemStorage.settings
  routes,           \* MemStorage.routes: id -> Route
  routeId,          \* MemStorage.routeId: next route id
  routeHistories,   \* MemStorage.routeHistories, in insertion order
  routeHistoryId,   \* MemStorage.routeHistoryId: next history id
  notifications,    \* MemStorage.notifications, in insertion order
  notificationId,   \* MemStorage.notificationId: next notification id
  scheduledJobs,    \* routes.ts scheduledJobs: route id -> job handle
  jobs,             \* node-schedule jobs not cancelled: handle -> cron rule
  pendingLookups,   \* .then callbacks of scheduleRouteMonitoring not yet run
  inflight,         \* checkRouteTime invocations waiting for the provider
  now,              \* wall clock, in minutes
  dueJobs,          \* live jobs whose timer reached this minute, not yet run
  lastResult        \* what the last finished checkRouteTime returned

vars == <<envKey, settings, routes, routeId, routeHistories, routeHistoryId,
          notifications, notificationId, scheduledJobs, jobs, pendingLookups,
          inflight, now, dueJobs, lastResult>>

storeVars == <<routes, routeId, routeHistories, routeHistoryId,
               notifications, notificationId>>
schedVars == <<scheduledJobs, jobs, pendingLookups, dueJobs>>

\* ------------------------------------------------------------------ inputs
EnvKeys == {"", "env"}
UserKeys == {"", "user"}
Intervals == {1, 2}
Durations == {0, 20, 25}
NotificationTypes == {"all", "significant", "increase"}

\* POST /api/routes bodies: the form sends no currentTime (key absent); an
\* API client may send currentTime: null.
CreateBodies ==
  [isActive : BOOLEAN, interval : Intervals, currentTime : {UNDEFINED, NULL}]

\* PATCH /api/routes/:id bodies: any of isActive and interval, at least one.
PatchBodies ==
  { b \in [hasIsActive : BOOLEAN, isActive : BOOLEAN,
           hasInterval : BOOLEAN, interval : Intervals] :
      /\ (b.hasIsActive \/ b.hasInterval)
      /\ (~b.hasIsActive => ~b.isActive)
      /\ (~b.hasInterval => b.interval = 1) }

\* PATCH /api/settings bodies (partial): the key, or the preferences.
KeyBodies == [apiKey : UserKeys]
PrefBodies ==
  [enableNotifications : BOOLEAN, notificationType : NotificationTypes]
SettingsBodies == KeyBodies \cup PrefBodies

\* ----------------------------------------------------------------- helpers
Range(f) == { f[x] : x \in DOMAIN f }
Without(f, k) == [x \in DOMAIN f \ {k} |-> f[x]]
With(f, k, v) == [x \in DOMAIN f \cup {k} |-> IF x = k THEN v ELSE f[x]]
EmptyMap == [x \in {} |-> 0]

NoResult ==
  [ok |-> FALSE, routeId |-> 0, source |-> "none", travelTime |-> 0,
   change |-> NULL, route |-> <<>>, history |-> <<>>, notification |-> <<>>,
   settings |-> <<>>]

\* ----------------------------------------------------------- MemStorage
\* createRoute: {...insertRoute, id, lastChecked: now, change: null}.  Keys
\* the body does not carry (minTime, maxTime, avgTime) stay undefined.
createRoute(body, id) ==
  [isActive |-> body.isActive, interval |-> body.interval,
   currentTime |-> body.currentTime, minTime |-> UNDEFINED,
   maxTime |-> UNDEFINED, avgTime |-> UNDEFINED, change |-> NULL,
   lastChecked |-> now]

\* A plausible slip: the merged route is returned without being stored.
updateRouteNotStored(rs, id, updates) == rs

\* updateRoute: undefined for an unknown id, else {...route, ...updates}.
updateRoute(rs, id, updates) ==
  IF id \notin DOMAIN rs THEN rs
  ELSE [rs EXCEPT ![id] =
          [f \in DOMAIN rs[id] |->
             IF f \in DOMAIN updates THEN updates[f] ELSE rs[id][f]]]

\* Stable insertion of h in a sequence sorted by timestamp.
RECURSIVE InsertByTimestamp(_, _)
InsertByTimestamp(sorted, h) ==
  IF sorted = <<>> THEN <<h>>
  ELSE IF Head(sorted).timestamp <= h.timestamp
       THEN <<Head(sorted)>> \o InsertByTimestamp(Tail(sorted), h)
       ELSE <<h>> \o sorted

RECURSIVE SortByTimestamp(_)
SortByTimestamp(hs) ==
  IF hs = <<>> THEN <<>>
  ELSE InsertByTimestamp(SortByTimestamp(SubSeq(hs, 1, Len(hs) - 1)),
                         hs[Len(hs)])

\* getRouteHistories: the entries of the route, sorted by timestamp.
getRouteHistories(hs, id) ==
  SortByTimestamp(SelectSeq(hs, LAMBDA h : h.routeId = id))

\* A plausible slip: the loop stops after the first entry it removed.
RECURSIVE deleteRouteHistoriesFirst(_, _)
deleteRouteHistoriesFirst(hs, id) ==
  IF hs = <<>> THEN <<>>
  ELSE IF Head(hs).routeId = id THEN Tail(hs)
  ELSE <<Head(hs)>> \o deleteRouteHistoriesFirst(Tail(hs), id)

\* deleteRouteHistories: every entry of the route is removed.
deleteRouteHistories(hs, id) == SelectSeq(hs, LAMBDA h : h.routeId # id)

\* updateSettings: {...settings, ...updates}.
updateSettings(st, updates) ==
  [f \in DOMAIN st |-> IF f \in DOMAIN updates THEN updates[f] ELSE st[f]]

\* ------------------------------------------------------------- scheduler
\* The scheduler state a handler threads through its calls.
Sched ==
  [map |-> scheduledJobs, live |-> jobs, pending |-> pendingLookups,
   due |-> dueJobs]

\* job.cancel(): the job's timer is cleared; a cancelled job stays cancelled.
Cancel(s, j) ==
  [s EXCEPT !.live = Without(@, j), !.due = @ \ {j}]

\* A plausible slip: the job in the map is cancelled but no lookup is
\* started, so no new job is ever installed.
scheduleCancelOnly(s, id) ==
  IF id \in DOMAIN s.map THEN Cancel(s, s.map[id]) ELSE s

\* scheduleRouteMonitoring(routeId), synchronous part: the job in the map is
\* cancelled (and stays in the map), then the route lookup is started.
scheduleRouteMonitoring(s, id) ==
  LET s1 == IF id \in DOMAIN s.map THEN Cancel(s, s.map[id]) ELSE s
  IN  [s1 EXCEPT !.pending = Append(@, id)]

\* const job = scheduledJobs.get(id); if (job) { job.cancel(); delete }.
CancelScheduled(s, id) ==
  IF id \in DOMAIN s.map
  THEN [Cancel(s, s.map[id]) EXCEPT !.map = Without(@, id)]
  ELSE s

\* Handles in use: live jobs and whatever the map still refers to.
UsedJobs(s) == DOMAIN s.live \cup Range(s.map)
FreshJob(s) ==
  CHOOSE j \in (1..MaxJobs) \ UsedJobs(s) :
    \A k \in (1..MaxJobs) \ UsedJobs(s) : j <= k

\* Every pending lookup of s can still be given a handle.
HasHandles(s) == Cardinality(UsedJobs(s)) + Len(s.pending) <= MaxJobs

\* `*/n * * * *` matches minute m of the hour iff m is a multiple of n.
CronMatches(n, m) == m % n = 0

\* The .then callback of scheduleRouteMonitoring: nothing for a missing or
\* inactive route, else a new job at the route's interval is put in the map.
LookupResolved(s, id) ==
  LET rest == [s EXCEPT !.pending = Tail(@)]
  IN  IF id \notin DOMAIN routes \/ ~routes[id].isActive THEN rest
      ELSE LET j == FreshJob(rest)
           IN  [rest EXCEPT
                  !.live = With(@, j, [routeId |-> id,
                                       interval |-> routes[id].interval]),
                  !.map = With(@, id, j)]

\* The microtask queue drains: every pending .then callback runs, oldest
\* first, before the event loop takes the next macrotask.
RECURSIVE ResolveAll(_)
ResolveAll(s) ==
  IF s.pending = <<>> THEN s
  ELSE ResolveAll(LookupResolved(s, Head(s.pending)))

SetSched(s) ==
  /\ scheduledJobs' = s.map
  /\ jobs' = s.live
  /\ pendingLookups' = s.pending
  /\ dueJobs' = s.due

\* A plausible slip: the provider is called synchronously, so the event
\* loop takes nothing else while a provider request is pending.
IdleNoRequest == pendingLookups = <<>> /\ inflight = {}

\* No microtask is left: the event loop takes the next macrotask.
Idle == pendingLookups = <<>>

\* --------------------------------------------------------- checkRouteTime
\* const timeChange = previousTime !== null ? durationMinutes - previousTime
\*                                          : null
TimeChange(previousTime, d) ==
  IF previousTime # NULL THEN Minus(d, previousTime) ELSE NULL

\* A plausible slip: an earlier minimum is kept as it is.
MinTimeKeepsPrior(prior, d) == IF Truthy(prior) THEN prior ELSE Num(d)

\* route.minTime ? Math.min(route.minTime, d) : d
MinTime(prior, d) == IF Truthy(prior) THEN Num(Min2(prior.val, d)) ELSE Num(d)

\* route.maxTime ? Math.max(route.maxTime, d) : d
MaxTime(prior, d) == IF Truthy(prior) THEN Num(Max2(prior.val, d)) ELSE Num(d)

\* A plausible slip: the mean truncated instead of rounded.
AvgTimeTruncated(allHistories) ==
  Num(SumTravelTime(allHistories) \div Len(allHistories))

\* Math.round(sum / allHistories.length) over the histories read back.
AvgTime(allHistories) ==
  Num(MathRound(SumTravelTime(allHistories), Len(allHistories)))

\* The type of the notification for a non-null change.
ChangeType(change) ==
  IF GtZero(change) THEN "increase"
  ELSE IF LtZero(change) THEN "decrease"
  ELSE "unchanged"

SignificantChange == 5

\* A plausible slip: "significant" taken as strictly more than 5 minutes.
ShouldNotifyStrict(change, st) ==
  /\ st.enableNotifications
  /\ CASE st.notificationType = "all" -> TRUE
       [] st.notificationType = "significant" ->
            AbsGe(change, SignificantChange + 1)
       [] st.notificationType = "increase" -> GtZero(change)
       [] OTHER -> FALSE

\* The emission gate for a non-null change.
ShouldNotify(change, st) ==
  /\ st.enableNotifications
  /\ CASE st.notificationType = "all" -> TRUE
       [] st.notificationType = "significant" ->
            AbsGe(change, SignificantChange)
       [] st.notificationType = "increase" -> GtZero(change)
       [] OTHER -> FALSE

\* The notification checkRouteTime persists: <<>> for none, else <<type>>.
Decide(change, st) ==
  IF change # NULL
  THEN IF ShouldNotify(change, st) THEN <<ChangeType(change)>> ELSE <<>>
  ELSE <<"new">>

Failed(id, src) == [NoResult EXCEPT !.routeId = id, !.source = src]

\* process.env.GOOGLE_MAPS_API_KEY || settings?.apiKey
ApiKey(st) == IF envKey # "" THEN envKey ELSE st.apiKey

FreshCheck ==
  CHOOSE c \in 1..MaxInFlight : c \notin { x.cid : x \in inflight }

\* Room for one more check that may write a history entry.
CanStart ==
  /\ Cardinality(inflight) < MaxInFlight
  /\ routeHistoryId + Cardinality(inflight) <= MaxHistories

\* checkRouteTime up to the provider call: the route and the settings are
\* read; a missing route or a missing key returns null; else the provider
\* request is sent and the invocation waits for the response.
\* A plausible slip: the key is not looked at before the provider is called.
StartsCheckAnyKey(rs, id) == id \in DOMAIN rs

StartsCheck(rs, id) == id \in DOMAIN rs /\ ApiKey(settings) # ""

StartCheck(rs, id, src) ==
  IF ~StartsCheck(rs, id)
  THEN /\ inflight' = inflight
       /\ lastResult' = Failed(id, src)
  ELSE /\ inflight' = inflight \cup
            {[cid |-> FreshCheck, routeId |-> id, source |-> src,
              route |-> [currentTime |-> rs[id].currentTime,
                         minTime |-> rs[id].minTime,
                         maxTime |-> rs[id].maxTime],
              settings |-> settings]}
       /\ lastResult' = lastResult

\* checkRouteTime from the provider's response on.
FinishCheck(c, res) ==
  IF res = NULL
  THEN /\ lastResult' = Failed(c.routeId, c.source)
       /\ UNCHANGED storeVars
  ELSE
    LET d == res.val
        timeChange == TimeChange(c.route.currentTime, d)
        history == [id |-> routeHistoryId, routeId |-> c.routeId,
                    travelTime |-> d, timestamp |-> now,
                    change |-> timeChange]
        hs == Append(routeHistories, history)
        allHistories == getRouteHistories(hs, c.routeId)
        updates == [currentTime |-> Num(d),
                    minTime |-> MinTime(c.route.minTime, d),
                    maxTime |-> MaxTime(c.route.maxTime, d),
                    avgTime |-> AvgTime(allHistories),
                    change |-> timeChange,
                    lastChecked |-> now]
        rs == updateRoute(routes, c.routeId, updates)
        decided == Decide(timeChange, c.settings)
        notification ==
          IF decided = <<>> THEN <<>>
          ELSE <<[id |-> notificationId, routeId |-> c.routeId,
                  type |-> decided[1], timestamp |-> now]>>
    IN  /\ routeHistories' = hs
        /\ routeHistoryId' = routeHistoryId + 1
        /\ routes' = rs
        /\ notifications' = notifications \o notification
        /\ notificationId' = notificationId + Len(notification)
        /\ routeId' = routeId
        /\ lastResult' =
             [ok |-> TRUE, routeId |-> c.routeId, source |-> c.source,
              travelTime |-> d, change |-> timeChange,
              route |-> IF c.routeId \in DOMAIN rs
                        THEN <<rs[c.routeId]>> ELSE <<>>,
              history |-> <<history>>, notification |-> notification,
              settings |-> <<c.settings>>]

\* The value checkRouteTime returns: {route, history, notification}, or
\* null on every failure path.
Returned(r) ==
  IF r.ok
  THEN [route |-> r.route, history |-> r.history,
        notification |-> r.notification]
  ELSE NULL

\* What POST /api/routes/:id/check answers for the returned value.
CheckNowReply(v) ==
  IF v = NULL
  THEN [status |-> 404, message |-> "Route not found or check failed"]
  ELSE [status |-> 200, message |-> "result"]

\* ----------------------------------------------------------------- actions
\* new MemStorage(): no routes, default settings with the environment key;
\* no job scheduled.
Init ==
  /\ envKey \in EnvKeys
  /\ settings = [apiKey |-> envKey, enableNotifications |-> TRUE,
                 notificationType |-> "all"]
  /\ routes = EmptyMap
  /\ routeId = 1
  /\ routeHistories = <<>>
  /\ routeHistoryId = 1
  /\ notifications = <<>>
  /\ notificationId = 1
  /\ scheduledJobs = EmptyMap
  /\ jobs = EmptyMap
  /\ pendingLookups = <<>>
  /\ inflight = {}
  /\ now = 0
  /\ dueJobs = {}
  /\ lastResult = NoResult

\* scheduleRouteMonitoring for the ids of ids, in ascending (insertion) order.
RECURSIVE ScheduleAll(_, _)
ScheduleAll(s, ids) ==
  IF ids = {} THEN s
  ELSE LET id == CHOOSE x \in ids : \A y \in ids : x <= y
       IN  ScheduleAll(scheduleRouteMonitoring(s, id), ids \ {id})

\* GET /api/init
ApiInit ==
  /\ Idle
  /\ LET s == ScheduleAll(Sched, { id \in DOMAIN routes : routes[id].isActive })
     IN  /\ HasHandles(s)
         /\ SetSched(s)
  /\ settings' = IF envKey # "" /\ settings.apiKey # envKey
                 THEN updateSettings(settings, [apiKey |-> envKey])
                 ELSE settings
  /\ UNCHANGED <<envKey, storeVars, inflight, now, lastResult>>

\* POST /api/routes
CreateRoute(body) ==
  /\ Idle
  /\ settings.apiKey # ""
  /\ routeId <= MaxRoutes
  /\ CanStart
  /\ LET rs == With(routes, routeId, createRoute(body, routeId))
         s == IF body.isActive
              THEN scheduleRouteMonitoring(Sched, routeId) ELSE Sched
     IN  /\ HasHandles(s)
         /\ routes' = rs
         /\ routeId' = routeId + 1
         /\ SetSched(s)
         /\ StartCheck(rs, routeId, "create")
  /\ UNCHANGED <<envKey, settings, routeHistories, routeHistoryId,
                 notifications, notificationId, now>>

\* PATCH /api/routes/:id for an existing route (404 otherwise).
UpdateRoute(id, body) ==
  /\ Idle
  /\ id \in DOMAIN routes
  /\ LET updates ==
           [f \in (IF body.hasIsActive THEN {"isActive"} ELSE {}) \cup
                  (IF body.hasInterval THEN {"interval"} ELSE {}) |->
              IF f = "isActive" THEN body.isActive ELSE body.interval]
         rs == updateRoute(routes, id, updates)
         s1 == IF body.hasIsActive
               THEN IF body.isActive
                    THEN scheduleRouteMonitoring(Sched, id)
                    ELSE CancelScheduled(Sched, id)
               ELSE Sched
         s2 == IF body.hasInterval /\ rs[id].isActive
               THEN scheduleRouteMonitoring(CancelScheduled(s1, id), id)
               ELSE s1
     IN  /\ HasHandles(s2)
         /\ routes' = rs
         /\ SetSched(s2)
  /\ UNCHANGED <<envKey, settings, routeId, routeHistories, routeHistoryId,
                 notifications, notificationId, inflight, now, lastResult>>

\* DELETE /api/routes/:id for an existing route (404 otherwise).
DeleteRoute(id) ==
  /\ Idle
  /\ id \in DOMAIN routes
  /\ SetSched(CancelScheduled(Sched, id))
  /\ routeHistories' = deleteRouteHistories(routeHistories, id)
  /\ routes' = Without(routes, id)
  /\ UNCHANGED <<envKey, settings, routeId, routeHistoryId, notifications,
                 notificationId, inflight, now, lastResult>>

\* POST /api/routes/:id/check
CheckNow(id) ==
  /\ Idle
  /\ StartsCheck(routes, id) => CanStart
  /\ StartCheck(routes, id, "manual")
  /\ UNCHANGED <<envKey, settings, storeVars, schedVars, now>>

\* PATCH /api/settings
UpdateSettings(body) ==
  /\ Idle
  /\ settings' = updateSettings(settings, body)
  /\ settings' # settings
  /\ UNCHANGED <<envKey, storeVars, schedVars, inflight, now, lastResult>>

\* The .then callback of the oldest pending scheduleRouteMonitoring.
ResolveLookup ==
  /\ pendingLookups # <<>>
  /\ SetSched(LookupResolved(Sched, Head(pendingLookups)))
  /\ UNCHANGED <<envKey, settings, storeVars, inflight, now, lastResult>>

\* The wall clock reaches the next minute: the timer of every live job whose
\* rule matches the minute expires.
TickTo(limit) ==
  /\ Idle
  /\ dueJobs = {}
  /\ now < limit
  /\ now' = now + 1
  /\ dueJobs' = { j \in DOMAIN jobs :
                    CronMatches(jobs[j].interval, (now + 1) % MinutesPerHour) }
  /\ UNCHANGED <<envKey, settings, storeVars, scheduledJobs, jobs,
                 pendingLookups, inflight, lastResult>>

Tick == TickTo(MaxMinute)

\* The callback of job j runs: async () => { await checkRouteTime(routeId) }.
TimerFire(j) ==
  /\ Idle
  /\ j \in dueJobs
  /\ StartsCheck(routes, jobs[j].routeId) => CanStart
  /\ dueJobs' = dueJobs \ {j}
  /\ StartCheck(routes, jobs[j].routeId, "timer")
  /\ UNCHANGED <<envKey, settings, storeVars, scheduledJobs, jobs,
                 pendingLookups, now>>

\* The provider's response to the request of check c arrives: null on any
\* failure, else a duration in minutes.
ProviderReturn(c, res) ==
  /\ Idle
  /\ c \in inflight
  /\ inflight' = inflight \ {c}
  /\ FinishCheck(c, res)
  /\ UNCHANGED <<envKey, settings, schedVars, now>>

Results == {NULL} \cup { Num(d) : d \in Durations }

\* The store calls checkRouteTime makes after the provider has answered.
StoreCalls ==
  {"createRouteHistory", "getRouteHistories", "updateRoute",
   "createNotification"}

\* A plausible slip: the catch block undoes the writes already made.
FinishCheckRollsBack(c, res, at) ==
  /\ UNCHANGED storeVars
  /\ lastResult' = Failed(c.routeId, c.source)

\* checkRouteTime from the provider's response on, over a store (an
\* IStorage other than MemStorage, whose calls cannot fail) whose call `at`
\* rejects: the writes issued before it stay, the catch block logs the
\* error and returns null.
FinishCheckThrows(c, res, at) ==
  LET d == res.val
      timeChange == TimeChange(c.route.currentTime, d)
      history == [id |-> routeHistoryId, routeId |-> c.routeId,
                  travelTime |-> d, timestamp |-> now,
                  change |-> timeChange]
      hs == Append(routeHistories, history)
      updates == [currentTime |-> Num(d),
                  minTime |-> MinTime(c.route.minTime, d),
                  maxTime |-> MaxTime(c.route.maxTime, d),
                  avgTime |-> AvgTime(getRouteHistories(hs, c.routeId)),
                  change |-> timeChange,
                  lastChecked |-> now]
      wroteHistory == at # "createRouteHistory"
      wroteRoute == at = "createNotification"
  IN  /\ at = "createNotification" => Decide(timeChange, c.settings) # <<>>
      /\ routeHistories' = IF wroteHistory THEN hs ELSE routeHistories
      /\ routeHistoryId' = routeHistoryId + (IF wroteHistory THEN 1 ELSE 0)
      /\ routes' = IF wroteRoute THEN updateRoute(routes, c.routeId, updates)
                   ELSE routes
      /\ UNCHANGED <<routeId, notifications, notificationId>>
      /\ lastResult' = Failed(c.routeId, c.source)

\* A plausible slip: no try/catch around the body of checkRouteTime.  The
\* rejection leaves the async timer callback unhandled and the process
\* ends: every timer is lost and nothing is returned.
StoreThrowsUncaught(c, res, at) ==
  /\ Idle
  /\ c \in inflight
  /\ res # NULL
  /\ inflight' = {}
  /\ FinishCheckThrows(c, res, at)
  /\ SetSched([map |-> EmptyMap, live |-> EmptyMap, pending |-> <<>>,
               due |-> {}])
  /\ UNCHANGED <<envKey, settings, now>>

\* The provider's response to the request of check c arrives and a store
\* call of the rest of checkRouteTime rejects.
StoreThrows(c, res, at) ==
  /\ Idle
  /\ c \in inflight
  /\ res # NULL
  /\ inflight' = inflight \ {c}
  /\ FinishCheckThrows(c, res, at)
  /\ UNCHANGED <<envKey, settings, schedVars, now>>

Next ==
  \/ ApiInit
  \/ \E body \in CreateBodies : CreateRoute(body)
  \/ \E id \in 1..MaxRoutes, body \in PatchBodies : UpdateRoute(id, body)
  \/ \E id \in 1..MaxRoutes : DeleteRoute(id)
  \/ \E id \in 1..MaxRoutes : CheckNow(id)
  \/ \E body \in SettingsBodies : UpdateSettings(body)
  \/ ResolveLookup
  \/ Tick
  \/ \E j \in 1..MaxJobs : TimerFire(j)
  \/ \E c \in inflight, res \in Results : ProviderReturn(c, res)

Spec == Init /\ [][Next]_vars

\* ---------------------------------------------------- scenario: scheduler
\* The scheduler under every interleaving of requests, lookups, clock ticks
\* and timer callbacks, with the environment key set, at most one check
\* waiting for a provider that does not answer usefully.
InitSched == Init /\ envKey # ""

NextSched ==
  \/ ApiInit
  \/ \E body \in CreateBodies :
       body.currentTime = UNDEFINED /\ inflight = {} /\ CreateRoute(body)
  \/ \E id \in 1..MaxRoutes, body \in PatchBodies : UpdateRoute(id, body)
  \/ \E id \in 1..MaxRoutes : DeleteRoute(id)
  \/ \E id \in 1..MaxRoutes : inflight = {} /\ CheckNow(id)
  \/ ResolveLookup
  \/ Tick
  \/ \E j \in 1..MaxJobs : inflight = {} /\ TimerFire(j)
  \/ \E c \in inflight : ProviderReturn(c, NULL)

SpecSched == InitSched /\ [][NextSched]_vars

\* ------------------------------------ scenario: one route, checks in turn
\* One freshly created route whose checks (the one of its creation, manual
\* ones and timer-driven ones) never overlap and all succeed, under the
\* default notification preferences.
SeqDurations == {0, 20, 22, 24, 25}

NextSeq ==
  \/ \E body \in CreateBodies : routeId = 1 /\ CreateRoute(body)
  \/ \E id \in DOMAIN routes : inflight = {} /\ CheckNow(id)
  \/ ResolveLookup
  \/ Tick
  \/ \E j \in 1..MaxJobs : inflight = {} /\ TimerFire(j)
  \/ \E c \in inflight, d \in SeqDurations : ProviderReturn(c, Num(d))

SpecSeq == InitSched /\ [][NextSeq]_vars

\* ------------------------------------- scenario: one route, any overlap
\* One route, created, checked by hand and by its timer with checks that
\* may overlap, fail or outlive the route.
CheckDurations == {20, 24, 25}

CheckResults == {NULL} \cup { Num(d) : d \in CheckDurations }

NextChecks ==
  \/ \E body \in CreateBodies : routeId = 1 /\ CreateRoute(body)
  \/ \E id \in 1..MaxRoutes : DeleteRoute(id)
  \/ \E id \in 1..MaxRoutes : CheckNow(id)
  \/ ResolveLookup
  \/ Tick
  \/ \E j \in 1..MaxJobs : TimerFire(j)
  \/ \E c \in inflight, res \in CheckResults : ProviderReturn(c, res)

SpecChecks == InitSched /\ [][NextChecks]_vars

\* ------------------------------ scenario: one route, changing preferences
\* One route created and checked by hand, one check at a time, with checks
\* that may fail, while the preferences change between and during them.
NextPolicy ==
  \/ \E body \in CreateBodies : routeId = 1 /\ CreateRoute(body)
  \/ \E id \in DOMAIN routes : inflight = {} /\ CheckNow(id)
  \/ \E body \in PrefBodies : UpdateSettings(body)
  \/ ResolveLookup
  \/ \E c \in inflight, res \in CheckResults : ProviderReturn(c, res)

SpecPolicy == InitSched /\ [][NextPolicy]_vars

\* ----------------------------------- scenario: one route, changing key
\* One route, with or without an environment key, while the stored key is
\* set and cleared through the settings: checks by hand (one at a time), by
\* the timer and at creation that find no route, no key, or a provider that
\* fails.
KeyResults == {NULL, Num(20)}

NextKeys ==
  \/ ApiInit
  \/ \E body \in CreateBodies :
       routeId = 1 /\ body.currentTime = UNDEFINED /\ CreateRoute(body)
  \/ \E id \in 1..MaxRoutes : DeleteRoute(id)
  \/ \E id \in 1..MaxRoutes : inflight = {} /\ CheckNow(id)
  \/ \E body \in KeyBodies : UpdateSettings(body)
  \/ ResolveLookup
  \/ Tick
  \/ \E j \in 1..MaxJobs : TimerFire(j)
  \/ \E c \in inflight, res \in KeyResults : ProviderReturn(c, res)

SpecKeys == Init /\ [][NextKeys]_vars

\* -------------------------------------- scenario: a store that can fail
\* Active routes created and checked every minute by their timers, one
\* check at a time, with a provider that may fail and a store whose calls
\* may reject.
FaultResults == {NULL, Num(20)}

NextFaults ==
  \/ \E body \in CreateBodies :
       /\ body.currentTime = UNDEFINED /\ body.isActive /\ inflight = {}
       /\ body.interval = 1
       /\ CreateRoute(body)
  \/ ResolveLookup
  \/ Tick
  \/ \E j \in 1..MaxJobs : inflight = {} /\ TimerFire(j)
  \/ \E c \in inflight, res \in FaultResults : ProviderReturn(c, res)
  \/ \E c \in inflight, res \in FaultResults \ {NULL}, at \in StoreCalls :
       StoreThrows(c, res, at)

SpecFaults == InitSched /\ [][NextFaults]_vars

\* ------------------------------------ scenario: routes and their history
\* Inactive routes created, checked by hand (checks may overlap and outlive
\* their route) and deleted.
StoreDurations == {0, 20, 25}

NextStore ==
  \/ \E body \in CreateBodies :
       /\ ~body.isActive /\ body.interval = 1 /\ body.currentTime = UNDEFINED
       /\ CreateRoute(body)
  \/ \E id \in 1..MaxRoutes : DeleteRoute(id)
  \/ \E id \in DOMAIN routes : CheckNow(id)
  \/ \E c \in inflight, d \in StoreDurations : ProviderReturn(c, Num(d))

SpecStore == InitSched /\ [][NextStore]_vars

\* ------------------------------ scenario: one route, overlapping checks
\* One route whose checks (the one of its creation, manual ones and
\* timer-driven ones) all succeed and may overlap: several wait for the
\* provider at once and the responses arrive in any order.
OverlapDurations == {0, 20, 25}

NextOverlap ==
  \/ \E body \in CreateBodies : routeId = 1 /\ CreateRoute(body)
  \/ \E id \in DOMAIN routes : CheckNow(id)
  \/ ResolveLookup
  \/ Tick
  \/ \E j \in 1..MaxJobs : TimerFire(j)
  \/ \E c \in inflight, d \in OverlapDurations : ProviderReturn(c, Num(d))

SpecOverlap == InitSched /\ [][NextOverlap]_vars

\* ------------------------------------ scenario: activation and progress
\* One route, created inactive, then activated, deactivated (by requests
\* that change the flag) and deleted while the clock runs.  Fairness: the .then callbacks are
\* microtasks and run before anything else (weak fairness is enough, nothing
\* else is enabled while one is pending); the clock, the timer callbacks
\* and the provider's responses are macrotasks the event loop always gets
\* to between two requests (strong fairness: a request may disable them
\* for the time of its microtasks).
NextLive ==
  \/ \E body \in CreateBodies :
       /\ routeId = 1 /\ ~body.isActive /\ body.currentTime = UNDEFINED
       /\ CreateRoute(body)
  \/ \E id \in DOMAIN routes, body \in PatchBodies :
       /\ ~body.hasInterval /\ body.isActive # routes[id].isActive
       /\ UpdateRoute(id, body)
  \/ \E id \in 1..MaxRoutes : DeleteRoute(id)
  \/ ResolveLookup
  \/ Tick
  \/ \E j \in 1..MaxJobs : TimerFire(j)
  \/ \E c \in inflight : ProviderReturn(c, NULL)

SpecLive ==
  /\ InitSched
  /\ [][NextLive]_vars
  /\ WF_vars(ResolveLookup)
  /\ SF_vars(Tick)
  /\ SF_vars(\E j \in 1..MaxJobs : TimerFire(j))
  /\ SF_vars(\E c \in inflight : ProviderReturn(c, NULL))

\* ------------------------------------ scenario: a timer over an hour
\* One active route created at some minute with one of several intervals,
\* its timer running until past the next hour boundary; the provider fails,
\* so the route keeps the lastChecked of its creation.
CronIntervals == {1, 7, 30, 45}

CronBodies ==
  [isActive : {TRUE}, interval : CronIntervals, currentTime : {UNDEFINED}]

CronTick == TickTo(MaxCronMinute)

NextCron ==
  \/ \E body \in CronBodies : routeId = 1 /\ CreateRoute(body)
  \/ ResolveLookup
  \/ CronTick
  \/ \E j \in 1..MaxJobs : TimerFire(j)
  \/ \E c \in inflight : ProviderReturn(c, NULL)

SpecCron == InitSched /\ [][NextCron]_vars

\* ------------------------------------- scenario: a provider that hangs
\* Two routes at interval 1, where the provider never answers the request
\* of the check made at the creation of route 1; every other request is
\* answered.  Routes are activated, deactivated and deleted meanwhile.
Hung(c) == c.source = "create" /\ c.routeId = 1

NextHung ==
  \/ \E body \in CreateBodies :
       /\ body.currentTime = UNDEFINED /\ body.interval = 1
       /\ routeId \in {1, 2}
       /\ CreateRoute(body)
  \/ \E id \in 1..MaxRoutes, body \in PatchBodies :
       ~body.hasInterval /\ UpdateRoute(id, body)
  \/ \E id \in 1..MaxRoutes : DeleteRoute(id)
  \/ ResolveLookup
  \/ Tick
  \/ \E j \in 1..MaxJobs : TimerFire(j)
  \/ \E c \in inflight, res \in KeyResults :
       ~Hung(c) /\ ProviderReturn(c, res)

SpecHung == InitSched /\ [][NextHung]_vars

\* ================================================================= claims
LiveJobsOf(id) == { j \in DOMAIN jobs : jobs[j].routeId = id }
DueJobsOf(id) == { j \in dueJobs : jobs[j].routeId = id }
IsActive(id) == id \in DOMAIN routes /\ routes[id].isActive

\* C1: once the lookups of the schedule calls issued for an active route
\* have resolved (also when a second call was issued before the lookup of
\* the first one resolved), the route has exactly one live timer, and in
\* no minute more than one timer of the route is due.
ScheduleTwiceOneTimer ==
  \A id \in DOMAIN routes :
    (routes[id].isActive /\ id \notin Range(pendingLookups)) =>
      /\ Cardinality(LiveJobsOf(id)) = 1
      /\ Cardinality(DueJobsOf(id)) <= 1

\* C2: whenever no schedule lookup is pending, every active route has
\* exactly one live timer and every inactive or deleted route id has none.
OneTimerPerActiveRoute ==
  Idle =>
    \A id \in 1..MaxRoutes :
      Cardinality(LiveJobsOf(id)) = IF IsActive(id) THEN 1 ELSE 0

\* C3: no timer callback dispatches a check of a route that exists and is
\* inactive.  (A route is created inactive without a timer, so an inactive
\* route with a timer callback is one that was deactivated and not
\* activated since.)
NoFireWhileDeactivated ==
  [][\A j \in 1..MaxJobs :
       TimerFire(j) =>
         ~(jobs[j].routeId \in DOMAIN routes /\ ~IsActive(jobs[j].routeId))]_vars

\* C4: every timer callback of an active route runs at a minute that is due
\* under the route's current interval: after an interval change no check
\* is dispatched at a minute due only under the old interval.
NoFireAtOldCadence ==
  [][\A j \in 1..MaxJobs :
       (TimerFire(j) /\ IsActive(jobs[j].routeId)) =>
         CronMatches(routes[jobs[j].routeId].interval, now % MinutesPerHour)]_vars

\* The travel times of the history of route id, oldest first.
TravelTimes(id) ==
  LET hs == getRouteHistories(routeHistories, id)
  IN  [i \in 1..Len(hs) |-> hs[i].travelTime]

\* The notification types persisted for route id, oldest first.
NotificationTypesOf(id) ==
  LET ns == SelectSeq(notifications, LAMBDA n : n.routeId = id)
  IN  [i \in 1..Len(ns) |-> ns[i].type]

SeqMin(ts) == CHOOSE m \in Range(ts) : \A t \in Range(ts) : m <= t
SeqMax(ts) == CHOOSE m \in Range(ts) : \A t \in Range(ts) : m >= t

RECURSIVE SeqSum(_)
SeqSum(ts) == IF ts = <<>> THEN 0 ELSE Head(ts) + SeqSum(Tail(ts))

\* num / den (den > 0) rounded to the nearest integer, halves away from 0.
RoundHalfAwayFromZero(num, den) ==
  LET q == Abs(num) \div den
      r == Abs(num) % den
      m == IF 2 * r >= den THEN q + 1 ELSE q
  IN  IF num < 0 THEN -m ELSE m

\* C5: after each of the non-overlapping successful checks of a freshly
\* created route, minTime and maxTime are the minimum and the maximum of
\* the travel times measured so far.
MinMaxOfMeasurements ==
  \A id \in DOMAIN routes :
    (inflight = {} /\ TravelTimes(id) # <<>>) =>
      /\ routes[id].minTime = Num(SeqMin(TravelTimes(id)))
      /\ routes[id].maxTime = Num(SeqMax(TravelTimes(id)))

\* C6: after each of the non-overlapping successful checks of a route,
\* avgTime is the mean of all the travel times in the route's history,
\* the entry just recorded included, rounded half away from zero.
AvgIsRoundedMean ==
  \A id \in DOMAIN routes :
    (inflight = {} /\ TravelTimes(id) # <<>>) =>
      routes[id].avgTime =
        Num(RoundHalfAwayFromZero(SeqSum(TravelTimes(id)),
                                  Len(TravelTimes(id))))

\* C6 witness: the measurements 20 and 25, whose mean 22.5 is a half, have
\* been recorded and avgTime is 23.
AvgOfTwentyAndTwentyFive ==
  /\ inflight = {}
  /\ 1 \in DOMAIN routes
  /\ TravelTimes(1) = <<20, 25>>
  /\ routes[1].avgTime = Num(23)

\* The check that just returned was successful and wrote the first history
\* entry of its route.
FirstCheckReturned ==
  /\ lastResult.ok
  /\ getRouteHistories(routeHistories, lastResult.routeId)
       = lastResult.history

\* C7: the first successful check of a created route records the change
\* null and persists exactly one notification, of type "new", whatever the
\* notification preferences.
FirstCheckIsNew ==
  FirstCheckReturned =>
    /\ lastResult.change = NULL
    /\ Len(lastResult.notification) = 1
    /\ NotificationTypesOf(lastResult.routeId) = <<"new">>

\* The emission rule as the specification states it, for a change c.
EmissionRule(c, st) ==
  /\ st.enableNotifications
  /\ \/ st.notificationType = "all"
     \/ st.notificationType = "significant" /\ IsNum(c) /\ Abs(c.val) >= 5
     \/ st.notificationType = "increase" /\ IsNum(c) /\ c.val > 0

Changes(id) ==
  LET hs == getRouteHistories(routeHistories, id)
  IN  [i \in 1..Len(hs) |-> hs[i].change]

\* The notification type the specification gives a check: "new" for the
\* first one, else by the sign of the change against the previous time.
ExpectedType(ts, i) ==
  IF i = 1 THEN "new"
  ELSE IF ts[i] > ts[i - 1] THEN "increase"
  ELSE IF ts[i] < ts[i - 1] THEN "decrease"
  ELSE "unchanged"

\* C9: in a run of non-overlapping successful checks of a freshly created
\* route (preferences "all"), the first history entry has the change null,
\* every later one the difference to the previous travel time, and the
\* notifications are "new", then "increase", "decrease" or "unchanged" by
\* the sign of the change; the measurements 20, 25, 22 end with minTime
\* 20, maxTime 25 and avgTime 22.
ChangeAndTypeSequence ==
  \A id \in DOMAIN routes :
    inflight = {} =>
      LET ts == TravelTimes(id)
      IN  /\ Changes(id) =
               [i \in 1..Len(ts) |->
                  IF i = 1 THEN NULL ELSE Num(ts[i] - ts[i - 1])]
          /\ NotificationTypesOf(id) =
               [i \in 1..Len(ts) |-> ExpectedType(ts, i)]
          /\ ts = <<20, 25, 22>> =>
               /\ routes[id].minTime = Num(20)
               /\ routes[id].maxTime = Num(25)
               /\ routes[id].avgTime = Num(22)

\* C10: every successful checkRouteTime, whatever dispatched it, appends
\* exactly one history entry {routeId, travelTime, change}, sets the
\* route's currentTime to the travel time, its change to the entry's change
\* and lastChecked to the current time, and returns the route, the entry
\* and the notification (or none).
SuccessfulCheckWrites ==
  [][\A c \in inflight, res \in CheckResults :
       (ProviderReturn(c, res) /\ res # NULL) =>
         LET id == c.routeId
         IN  /\ Len(routeHistories') = Len(routeHistories) + 1
             /\ SubSeq(routeHistories', 1, Len(routeHistories))
                  = routeHistories
             /\ lastResult'.ok
             /\ lastResult'.history = <<routeHistories'[Len(routeHistories')]>>
             /\ lastResult'.history[1].routeId = id
             /\ lastResult'.history[1].travelTime = res.val
             /\ id \in DOMAIN routes'
             /\ routes'[id].currentTime = res
             /\ routes'[id].change = lastResult'.history[1].change
             /\ routes'[id].lastChecked = now
             /\ lastResult'.route = <<routes'[id]>>
             /\ Len(lastResult'.notification) <= 1]_vars

\* No route with this id, or no key in the environment and none stored.
NotFoundOrUnconfigured(id) ==
  id \notin DOMAIN routes \/ (envKey = "" /\ settings.apiKey = "")

\* The store's routes, histories and notifications did not change, and the
\* invocation returned a failure.
WroteNothing ==
  /\ UNCHANGED <<routes, routeHistories, notifications>>
  /\ ~lastResult'.ok

\* C11: a check that finds no route or no key writes nothing and sends no
\* provider request; a check whose provider request returns null writes
\* nothing and sends no second request (its request is the only one that
\* leaves the set of pending requests, and none enters it).
FailedCheckWritesNothing ==
  [][/\ \A id \in 1..MaxRoutes :
         (CheckNow(id) /\ NotFoundOrUnconfigured(id)) =>
           (WroteNothing /\ inflight' = inflight)
     /\ \A j \in 1..MaxJobs :
         (TimerFire(j) /\ NotFoundOrUnconfigured(jobs[j].routeId)) =>
           (WroteNothing /\ inflight' = inflight)
     /\ \A c \in inflight :
         ProviderReturn(c, NULL) =>
           (WroteNothing /\ inflight' = inflight \ {c})]_vars

\* C11 witness: the timer of an existing route fired while no key was
\* resolvable, and the check returned a failure.
TimerCheckUnconfigured ==
  /\ ~lastResult.ok
  /\ lastResult.source = "timer"
  /\ lastResult.routeId \in DOMAIN routes
  /\ envKey = ""
  /\ settings.apiKey = ""

\* C12: a check that ends because the provider failed or because a store
\* call threw returns a failure value, and the step cancels no timer,
\* removes none from the map and drops no timer callback that is due: the
\* timers of this route and of every other route go on firing.
FailureKeepsTimers ==
  [][\A c \in inflight :
       (\/ ProviderReturn(c, NULL)
        \/ \E res \in FaultResults \ {NULL}, at \in StoreCalls :
             StoreThrows(c, res, at)) =>
         /\ ~lastResult'.ok
         /\ lastResult'.routeId = c.routeId
         /\ jobs' = jobs
         /\ scheduledJobs' = scheduledJobs
         /\ dueJobs' = dueJobs]_vars

\* C12 witness: the timer-driven check of a route failed at updateRoute
\* (its history entry is written, the route is not updated) while the
\* timers of two routes are live.
StoreThrewTimersLive ==
  /\ ~lastResult.ok
  /\ lastResult.source = "timer"
  /\ lastResult.routeId \in DOMAIN routes
  /\ getRouteHistories(routeHistories, lastResult.routeId) # <<>>
  /\ routes[lastResult.routeId].currentTime = UNDEFINED
  /\ \A id \in 1..MaxRoutes : LiveJobsOf(id) # {}

\* C13: the result of a failed check tells which failure occurred, so the
\* check-now operation answers a failed measurement differently from a
\* missing route.  Stated for a manual check whose provider request fails
\* right after a manual check of an id that was never allocated (which,
\* with a key configured, can only have failed for the missing route).
FailureDiscriminated ==
  [][\A c \in inflight :
       (/\ ProviderReturn(c, NULL)
        /\ c.source = "manual"
        /\ ~lastResult.ok
        /\ lastResult.source = "manual"
        /\ lastResult.routeId >= routeId) =>
         /\ Returned(lastResult') # Returned(lastResult)
         /\ CheckNowReply(Returned(lastResult'))
              # CheckNowReply(Returned(lastResult))]_vars

\* C14: when the delete-route operation completes for an id, the route is
\* gone, getRouteHistories for the id returns the empty list, and the
\* history of every other route is what it was.
DeleteCascade ==
  [][\A id \in 1..MaxRoutes :
       DeleteRoute(id) =>
         /\ id \notin DOMAIN routes'
         /\ getRouteHistories(routeHistories', id) = <<>>
         /\ \A o \in (1..MaxRoutes) \ {id} :
              getRouteHistories(routeHistories', o)
                = getRouteHistories(routeHistories, o)]_vars

\* C14 witness: route 1 was deleted with two history entries (two ids are
\* missing from the store) while route 2 keeps its entry.
DeletedTwoKeptOne ==
  /\ 1 \notin DOMAIN routes
  /\ 2 \in DOMAIN routes
  /\ getRouteHistories(routeHistories, 1) = <<>>
  /\ Len(getRouteHistories(routeHistories, 2)) = 1
  /\ routeHistoryId - 1 - Len(routeHistories) = 2

\* C15: once the schedule lookups of an init have resolved, every active
\* route has exactly one live timer and no inactive or deleted route id
\* has one, whatever timers existed before the init.
InitOneTimerPerRoute ==
  [][ApiInit =>
       LET s == ResolveAll([map |-> scheduledJobs', live |-> jobs',
                            pending |-> pendingLookups', due |-> dueJobs'])
       IN  \A id \in 1..MaxRoutes :
             Cardinality({ j \in DOMAIN s.live : s.live[j].routeId = id })
               = IF IsActive(id) THEN 1 ELSE 0]_vars

\* C16: creating an active route starts the installation of its timer and
\* dispatches exactly one check, which is not timer-driven; and when that
\* check succeeds, no timer-driven check of the route has started yet (none
\* is waiting for the provider at the moment the result is written).
ImmediateCheckFirst ==
  [][/\ \A body \in CreateBodies :
         (CreateRoute(body) /\ body.isActive) =>
           /\ routeId \in Range(pendingLookups')
           /\ \E x \in inflight' :
                /\ inflight' = inflight \cup {x}
                /\ x \notin inflight
                /\ x.routeId = routeId
                /\ x.source = "create"
     /\ \A c \in inflight, res \in CheckResults :
         (ProviderReturn(c, res) /\ c.source = "create" /\ res # NULL) =>
           \A x \in inflight \ {c} :
             ~(x.routeId = c.routeId /\ x.source = "timer")]_vars

\* A step in which an operation resolves the API key: an init, or a check
\* (at creation, by hand or by a timer) of a route that exists.
ResolvesKey ==
  \/ ApiInit
  \/ \E body \in CreateBodies : CreateRoute(body)
  \/ \E id \in DOMAIN routes : CheckNow(id)
  \/ \E j \in 1..MaxJobs : TimerFire(j) /\ jobs[j].routeId \in DOMAIN routes

\* C17: when the environment key is set and differs from the stored key,
\* an operation that resolves the key uses the environment key and leaves
\* it stored: afterwards settings.apiKey is the environment key.
EnvKeyWrittenBack ==
  [][(envKey # "" /\ settings.apiKey # envKey /\ ResolvesKey) =>
       /\ ApiKey(settings) = envKey
       /\ settings'.apiKey = envKey]_vars

HistoryChangeChain ==
  \A id \in 1..MaxRoutes :
    LET hs == getRouteHistories(routeHistories, id)
    IN  \A i \in 1..Len(hs) :
          hs[i].change =
            IF i = 1 THEN NULL
            ELSE Num(hs[i].travelTime - hs[i - 1].travelTime)

\* No check of route id is waiting for the provider.
Quiet(id) == \A c \in inflight : c.routeId # id

\* C20: whenever no check of a route is in flight, its avgTime is the
\* rounded mean of all the travel times in its history and its minTime and
\* maxTime are their minimum and maximum, whatever the interleaving of the
\* checks that wrote the history.
AggregatesWhenQuiet ==
  \A id \in DOMAIN routes :
    (Quiet(id) /\ TravelTimes(id) # <<>>) =>
      LET ts == TravelTimes(id)
      IN  /\ routes[id].avgTime =
               Num(RoundHalfAwayFromZero(SeqSum(ts), Len(ts)))
          /\ routes[id].minTime = Num(SeqMin(ts))
          /\ routes[id].maxTime = Num(SeqMax(ts))

\* A timer-driven check of route id is waiting for the provider.
TimerCheckInFlight(id) ==
  \E c \in inflight : c.routeId = id /\ c.source = "timer"

\* A minute at which a timer at the route's interval fires is still ahead.
FireAhead(id) ==
  \E m \in (now + 1)..MaxMinute :
    CronMatches(routes[id].interval, m % MinutesPerHour)

\* C21: a route that was created inactive and has been activated (its
\* schedule lookup resolved, no timer-driven check of it under way, a
\* minute of its cadence still ahead) gets a timer-driven check dispatched,
\* unless it is deactivated or deleted first.
ReactivatedEventuallyChecked ==
  \A id \in 1..MaxRoutes :
    (IsActive(id) /\ Idle /\ ~TimerCheckInFlight(id) /\ FireAhead(id))
      ~> (TimerCheckInFlight(id) \/ ~IsActive(id))

\* C21 witness: the route, created inactive, is active and a timer-driven
\* check of it has been dispatched.
ReactivatedAndChecked ==
  /\ IsActive(1)
  /\ TimerCheckInFlight(1)

\* The minutes after `since`, up to t, at which a timer at interval n fires.
FiresBetween(n, since, t) ==
  { u \in (since + 1)..t : CronMatches(n, u % MinutesPerHour) }

\* C22: a timer at interval n, live since its route was created, fires at
\* the latest n minutes after it was scheduled, and each of its fires
\* comes exactly n minutes after the one before, also when an hour
\* boundary lies between the two.
FiresEveryNthMinute ==
  [][CronTick =>
       \A j \in DOMAIN jobs :
         LET n == jobs[j].interval
             t == now + 1
             since == routes[jobs[j].routeId].lastChecked
         IN  /\ t - since = n => FiresBetween(n, since, t) # {}
             /\ j \in dueJobs' =>
                  \A u \in FiresBetween(n, since, t - 1) : t - u >= n
             /\ (j \in dueJobs' /\ t - since > n) =>
                  t - n \in FiresBetween(n, since, t - 1)]_vars

\* C23: an invocation persists at most one notification, none when it
\* fails, and one only together with its history entry and its route
\* update; so never more notifications than history entries were created.
NotificationAfterWrites ==
  [][\A c \in inflight, res \in CheckResults :
       ProviderReturn(c, res) =>
         /\ Len(notifications') <= Len(notifications) + 1
         /\ res = NULL => notifications' = notifications
         /\ notifications' # notifications =>
              /\ Len(routeHistories') = Len(routeHistories) + 1
              /\ routeHistories'[Len(routeHistories')].routeId = c.routeId
              /\ c.routeId \in DOMAIN routes'
              /\ routes'[c.routeId].currentTime = res
         /\ notificationId' <= routeHistoryId']_vars

\* The step appended one history entry, for route id with travel time d.
HistoryWritten(id, d) ==
  /\ Len(routeHistories') = Len(routeHistories) + 1
  /\ SubSeq(routeHistories', 1, Len(routeHistories)) = routeHistories
  /\ routeHistories'[Len(routeHistories')].routeId = id
  /\ routeHistories'[Len(routeHistories')].travelTime = d

\* C24: the writes of an invocation come in the order history insert,
\* route update, notification insert.  When a store call fails, what has
\* been written is what came before it and stays written, and nothing
\* after it is written: nothing if the history insert fails; the history
\* entry alone if the re-read or the route update fails; the history
\* entry and the route update, without notification, if the notification
\* insert fails.
WritesInOrderNoRollback ==
  [][\A c \in inflight, res \in FaultResults \ {NULL}, at \in StoreCalls :
       StoreThrows(c, res, at) =>
         /\ notifications' = notifications
         /\ at = "createRouteHistory" =>
              (routeHistories' = routeHistories /\ routes' = routes)
         /\ at \in {"getRouteHistories", "updateRoute"} =>
              (HistoryWritten(c.routeId, res.val) /\ routes' = routes)
         /\ at = "createNotification" =>
              /\ HistoryWritten(c.routeId, res.val)
              /\ routes'[c.routeId].currentTime = res
              /\ routes'[c.routeId].lastChecked = now]_vars

\* C24 witness: the notification insert of a route's only check failed:
\* the history entry and the route update are written, no notification.
NotificationInsertFailed ==
  /\ ~lastResult.ok
  /\ lastResult.routeId \in DOMAIN routes
  /\ Len(getRouteHistories(routeHistories, lastResult.routeId)) = 1
  /\ routes[lastResult.routeId].currentTime = Num(20)
  /\ notifications = <<>>

\* The live timers of route id once the pending lookups have resolved.
SettledJobsOf(id) ==
  LET s == ResolveAll(Sched)
  IN  { j \in DOMAIN s.live : s.live[j].routeId = id }

\* The live timers that are not the one the map records for their route.
Unmapped ==
  { j \in DOMAIN jobs :
      ~(jobs[j].routeId \in DOMAIN scheduledJobs
          /\ scheduledJobs[jobs[j].routeId] = j) }

\* C25: the scheduler operations a request issues for an id (schedule,
\* unschedule, schedule again while the first is between its cancel and
\* its install) leave, once their lookups have resolved, what a serial
\* order leaves: one live timer if the route ends active, none if it ends
\* inactive or deleted.  Stated for requests that start from a state in
\* which every live timer is in the map.
SchedulerOpsSerial ==
  [][\A id \in DOMAIN routes :
       (/\ Unmapped = {}
        /\ \/ \E body \in PatchBodies : UpdateRoute(id, body)
           \/ DeleteRoute(id)) =>
         Cardinality(SettledJobsOf(id)')
           = IF id \in DOMAIN routes' /\ routes'[id].isActive
             THEN 1 ELSE 0]_vars

\* C27: an update-route request with isActive = true and an interval
\* leaves, once its lookups have resolved, exactly one live timer for the
\* route, at the interval of the request.  Stated for requests that start
\* from a state in which every live timer is in the map.
ActivateWithIntervalOneTimer ==
  [][\A id \in DOMAIN routes, body \in PatchBodies :
       (/\ Unmapped = {}
        /\ body.hasIsActive /\ body.isActive /\ body.hasInterval
        /\ UpdateRoute(id, body)) =>
         /\ Cardinality(SettledJobsOf(id)') = 1
         /\ \A j \in SettledJobsOf(id)' :
              (ResolveAll(Sched).live)'[j].interval = body.interval]_vars

\* C28: in every state each live timer is the one the map records under
\* the id of its route.
LiveTimersAreMapped == Unmapped = {}

Activate == [hasIsActive |-> TRUE, isActive |-> TRUE,
             hasInterval |-> FALSE, interval |-> 1]
Deactivate == [hasIsActive |-> TRUE, isActive |-> FALSE,
               hasInterval |-> FALSE, interval |-> 1]

\* C26: while a provider request hangs (and no lookup callback is left to
\* run), the clock goes on, every due timer callback can run, every other
\* pending check can complete, and every route can be scheduled,
\* unscheduled and deleted.
HungBlocksNothing ==
  (pendingLookups = <<>> /\ \E h \in inflight : Hung(h)) =>
    /\ (dueJobs = {} /\ now < MaxMinute) => ENABLED Tick
    /\ \A j \in dueJobs : CanStart => ENABLED TimerFire(j)
    /\ \A x \in inflight : ~Hung(x) => ENABLED ProviderReturn(x, NULL)
    /\ \A id \in DOMAIN routes :
         /\ ENABLED DeleteRoute(id)
         /\ ENABLED UpdateRoute(id, Deactivate)
         /\ ENABLED UpdateRoute(id, Activate)

\* C26 witness: while the request of route 1 hangs, a timer-driven check
\* of route 2 has run to completion and written its result.
OtherRouteCheckedWhileHung ==
  /\ \E h \in inflight : Hung(h)
  /\ lastResult.ok
  /\ lastResult.source = "timer"
  /\ lastResult.routeId = 2
  /\ 2 \in DOMAIN routes
  /\ routes[2].currentTime = Num(20)

\* C29: a check whose route was deleted while the provider request was
\* pending writes no history entry and no notification and returns no
\* success, so the history of an id that is not stored is always empty.
DeletedRouteCheckWritesNothing ==
  /\ [][\A c \in inflight, res \in CheckResults :
          (ProviderReturn(c, res) /\ c.routeId \notin DOMAIN routes) =>
            /\ routeHistories' = routeHistories
            /\ notifications' = notifications
            /\ ~lastResult'.ok]_vars
  /\ [](\A id \in 1..MaxRoutes :
          id \notin DOMAIN routes =>
            getRouteHistories(routeHistories, id) = <<>>)

\* C30: whenever no check of a route is in flight and the route has a
\* history, its currentTime is the travel time of its most recent history
\* entry (the last one by timestamp) and its change is that entry's change,
\* whatever the interleaving of the checks of the route.
CurrentIsLatestHistory ==
  \A id \in DOMAIN routes :
    LET hs == getRouteHistories(routeHistories, id)
    IN  (Quiet(id) /\ hs # <<>>) =>
          /\ routes[id].currentTime = Num(hs[Len(hs)].travelTime)
          /\ routes[id].change = hs[Len(hs)].change

\* C30 witness: after a first check measured 20, two checks that both read
\* the route at 20 overlapped; they measured 25 and then 0, the last one
\* dispatched by the timer, and the route carries the values of the last.
StaleTimerCheckWroteLast ==
  /\ 1 \in DOMAIN routes
  /\ Quiet(1)
  /\ TravelTimes(1) = <<20, 25, 0>>
  /\ getRouteHistories(routeHistories, 1)[3].change = Num(-20)
  /\ lastResult.ok
  /\ lastResult.source = "timer"
  /\ routes[1].currentTime = Num(0)
  /\ routes[1].change = Num(-20)

====
